---------------------------- MODULE Spec2Model ----------------------------
(***************************************************************************)
(* The azurerm_dns_ptr_record resource adapter                             *)
(* (azurerm/resource_arm_dns_ptr_record.go): the three handlers            *)
(* CreateOrUpdate, Read and Delete, the StateStore they read and write     *)
(* (schema.ResourceData) and the DnsService they call (dns.RecordSets-     *)
(* Client).  One handler is in flight per resource.  Read and Delete make   *)
(* one call to the service and are one action each; CreateOrUpdate blocks  *)
(* on two calls, the upsert and the lookup of its trailing Read, and is    *)
(* two actions, between which the service serves its other clients.        *)
(***************************************************************************)
EXTENDS Integers, Sequences, FiniteSets, TLC

VARIABLES
    remote,     \* DnsService: record set stored under each (rg, zone, name)
    nextEtag,   \* DnsService: the etag the next write will be given
    store,      \* StateStore: the attribute bag of the one tracked resource
    origin,     \* where store.id came from, and the triple it was issued for
    last        \* the handler invocation last begun: inputs, calls, result

vars == <<remote, nextEtag, store, origin, last>>

-----------------------------------------------------------------------------
(* Bounds and value domains                                                *)

\* The service hands out etags 1..MaxEtag; a write needs a fresh one.
MaxEtag == 3

Groups == {"rg1"}
Zones  == {"zone1", "zone2"}
Names  == {"ptr1"}
Hosts  == {"host1.example.com", "host2.example.com"}

Triples == Groups \X Zones \X Names      \* (resource group, zone, record name)

\* A pointer is the set of what it points to: empty when nil.
Nil == {}
Ptr(x) == {x}
Deref(p) == CHOOSE x \in p : TRUE

EmptyString == ""
NoEtag == 0                 \* the etag "" (etags are numbered from 1)
EmptyId == <<>>             \* the identifier "" (no path segments)
NoRecord == [exists |-> FALSE]

\* HTTP status codes the handlers compare against.
StatusOK == 200
StatusNotFound == 404

-----------------------------------------------------------------------------
(* schema.Resource: the attribute bag and its schema (lines 11-59)         *)

\* Schema attributes declared ForceNew: the engine replaces the resource
\* (Delete, then Create) instead of calling Update when one of them changes.
ForceNew == {"name", "resource_group_name"}

\* Schema attributes declared Required.
Required == {"name", "resource_group_name", "zone_name", "records", "ttl"}

\* The zero value d.Get yields for an attribute that is not set.
ZeroValue(k) ==
    CASE k = "ttl"     -> 0
      [] k = "records" -> {}
      [] k = "tags"    -> {}
      [] OTHER         -> EmptyString

\* Variant of Get that yields a placeholder instead of the zero value.
GetPlaceholder(d, k) ==
    IF k \in DOMAIN d THEN d[k]
    ELSE IF k = "ttl" THEN -1
    ELSE IF k \in {"records", "tags"} THEN {}
    ELSE "unset"

\* d.Get(k): the attribute's value, or the zero value of its type.
Get(d, k) == IF k \in DOMAIN d THEN d[k] ELSE ZeroValue(k)

\* hashcode.String (crc32) of the hostnames of the model, the key
\* schema.HashString files each element of the "records" set under.  The
\* 32-bit value is written as its two 16-bit halves <<high, low>>.
HashString(h) ==
    CASE h = "host1.example.com" -> <<63937, 19458>>
      [] h = "host2.example.com" -> <<17419, 8396>>
      [] OTHER                   -> <<39325, 63817>>

\* The order of two hash keys (all keys of the model have ten decimal
\* digits, where the order of the keys as strings is that of the numbers).
KeyLeq(a, b) == a[1] < b[1] \/ (a[1] = b[1] /\ a[2] <= b[2])

\* (*schema.Set).List(): the elements in the order of their hash keys.
RECURSIVE SetList(_)
SetList(S) ==
    IF S = {} THEN <<>>
    ELSE LET m == CHOOSE x \in S : \A y \in S : KeyLeq(HashString(x), HashString(y))
         IN  <<m>> \o SetList(S \ {m})

\* d.Set("records", list): the list stored as a set (duplicates collapse).
ListToSet(l) == {l[i] : i \in DOMAIN l}

\* expandTags / flattenAndSetTags: each value boxed as *string and back.
expandTags(tags) == {<<kv[1], Ptr(kv[2])>> : kv \in tags}
flattenTags(metadata) == {<<kv[1], Deref(kv[2])>> : kv \in metadata}

\* expandAzureRmDnsPtrRecords: one dns.PtrRecord per element of the set.
expandAzureRmDnsPtrRecords(d) ==
    LET recordStrings == SetList(Get(d, "records"))
    IN  [i \in DOMAIN recordStrings |-> [Ptrdname |-> Ptr(recordStrings[i])]]

\* What flattenAzureRmDnsPtrRecords comes to: a nil dereference, or a list.
Panicked == [panic |-> TRUE, results |-> <<>>]
Returned(results) == [panic |-> FALSE, results |-> results]

\* Variant of flattenAzureRmDnsPtrRecords whose loop starts one element late.
flattenFromSecond(records) ==
    IF records = Nil
    THEN Panicked
    ELSE IF \E i \in 2..Len(Deref(records)) : Deref(records)[i].Ptrdname = Nil
    THEN Panicked
    ELSE Returned([i \in 1..(Len(Deref(records)) - 1) |->
                        Deref(Deref(records)[i + 1].Ptrdname)])

\* flattenAzureRmDnsPtrRecords: len(*records) is evaluated at line 160,
\* before the nil test of line 162, so a nil list is dereferenced; line 164
\* dereferences each record's Ptrdname, nil or not; otherwise the hostnames
\* in the order of the list.
flattenAzureRmDnsPtrRecords(records) ==
    IF records = Nil
    THEN Panicked
    ELSE IF \E i \in DOMAIN Deref(records) : Deref(records)[i].Ptrdname = Nil
    THEN Panicked
    ELSE Returned([i \in DOMAIN Deref(records) |-> Deref(Deref(records)[i].Ptrdname)])

-----------------------------------------------------------------------------
(* Resource identifiers: a path string as the sequence of its segments     *)

SubscriptionId == "sub1"

\* The identifier the service assigns to the record set under triple t:
\* /subscriptions/S/resourceGroups/G/providers/Microsoft.Network/dnszones/Z/PTR/N
ServiceId(t) ==
    <<"subscriptions", SubscriptionId, "resourceGroups", t[1],
      "providers", "Microsoft.Network", "dnszones", t[2], "PTR", t[3]>>

\* parseAzureResourceID: the segments taken as key/value pairs; the first
\* "subscriptions" pair, "resourceGroups" and "providers" are lifted out and
\* the other pairs form Path (a later pair replaces an earlier one).
parseAzureResourceID(id) ==
    LET n      == Len(id)
        keyAt  == {i \in 1..n : i % 2 = 1}
        subs   == {i \in keyAt : id[i] = "subscriptions"}
        first  == CHOOSE i \in subs : \A j \in subs : i <= j
        inMap  == IF subs = {} THEN keyAt ELSE keyAt \ {first}
        keys   == {id[i] : i \in inMap}
        valOf(k) == LET l == CHOOSE i \in inMap :
                                /\ id[i] = k
                                /\ \A j \in inMap : id[j] = k => j <= i
                    IN  id[l + 1]
        bad    == \/ n = 0
                  \/ n % 2 # 0
                  \/ \E i \in 1..n : id[i] = EmptyString
                  \/ subs = {}
                  \/ "resourceGroups" \notin keys
    IN  IF bad
        THEN [ok |-> FALSE, ResourceGroup |-> EmptyString, Path |-> {}]
        ELSE [ok |-> TRUE,
              ResourceGroup |-> valOf("resourceGroups"),
              Path |-> {<<k, valOf(k)>> : k \in keys \ {"resourceGroups", "providers"}}]

\* id.Path[k]: the value filed under k, or "" when the map has no such key.
PathAt(path, k) ==
    IF \E kv \in path : kv[1] = k
    THEN (CHOOSE kv \in path : kv[1] = k)[2]
    ELSE EmptyString

\* Variant of IdTriple with the two path keys exchanged.
IdTripleSwapped(id) == <<id.ResourceGroup, PathAt(id.Path, "PTR"), PathAt(id.Path, "dnszones")>>

\* The triple Read and Delete address: id.ResourceGroup, id.Path["dnszones"]
\* and id.Path["PTR"].
IdTriple(id) == <<id.ResourceGroup, PathAt(id.Path, "dnszones"), PathAt(id.Path, "PTR")>>

-----------------------------------------------------------------------------
(* DnsService: dns.RecordSetsClient as the handlers observe it.  A call    *)
(* answers with a status (0: no HTTP response at all, resp.Response is     *)
(* nil) and an error flag; `fault` is what goes wrong in the call.         *)

NoResponse == 0
StatusCreated == 201
StatusNoContent == 204
StatusBadRequest == 400
StatusPreconditionFailed == 412
StatusServerError == 500

RecordAt(rem, t) == IF t \in DOMAIN rem THEN rem[t] ELSE NoRecord

\* CreateOrUpdate(rg, zone, name, PTR, parameters, ifMatch, ifNoneMatch).
\* A write is refused when ifNoneMatch is "*" and the record set exists.
\* The etag passed as ifMatch is a hint: whether the service holds a write
\* to it is the service's choice (`policy`), and only a service that does
\* ("enforced") refuses a write whose etag the record set does not carry.
DnsCreateOrUpdate(rem, etag, t, parameters, ifMatch, ifNoneMatch, policy, fault) ==
    LET cur == RecordAt(rem, t)
        failed(st) == [remote |-> rem, nextEtag |-> etag,
                       resp |-> [status |-> st, err |-> TRUE, ID |-> Nil]]
    IN  IF fault = "transport" THEN failed(NoResponse)
        ELSE IF t \notin Triples THEN failed(StatusBadRequest)
        ELSE IF /\ policy = "enforced"
                /\ ifMatch # NoEtag
                /\ (~cur.exists \/ cur.Etag # ifMatch)
        THEN failed(StatusPreconditionFailed)
        ELSE IF ifNoneMatch = "*" /\ cur.exists
        THEN failed(StatusPreconditionFailed)
        ELSE [remote |-> [rem EXCEPT ![t] =
                            [exists |-> TRUE,
                             TTL |-> parameters.TTL,
                             PtrRecords |-> parameters.PtrRecords,
                             Metadata |-> parameters.Metadata,
                             Etag |-> etag]],
              nextEtag |-> etag + 1,
              resp |-> [status |-> IF cur.exists THEN StatusOK ELSE StatusCreated,
                        err |-> FALSE,
                        ID |-> IF fault = "noid" THEN Nil ELSE Ptr(ServiceId(t))]]

\* Get(rg, zone, name, PTR).  A missing record set is answered 404; the
\* fault "notfounderr" is the client attaching an error value to that 404.
DnsGet(rem, t, fault) ==
    LET cur == RecordAt(rem, t)
        none(st, e) == [status |-> st, err |-> e, TTL |-> 0, Etag |-> NoEtag,
                        PtrRecords |-> Nil, Metadata |-> {}]
    IN  IF fault = "transport" THEN none(NoResponse, TRUE)
        ELSE IF ~cur.exists THEN none(StatusNotFound, fault = "notfounderr")
        ELSE [status |-> StatusOK, err |-> FALSE, TTL |-> cur.TTL,
              Etag |-> cur.Etag, PtrRecords |-> cur.PtrRecords,
              Metadata |-> cur.Metadata]

\* Delete(rg, zone, name, PTR, ifMatch).  Deleting what is not there is
\* answered 204; the fault "okerr" is an error value next to a 200.
DnsDelete(rem, t, ifMatch, fault) ==
    LET cur == RecordAt(rem, t)
        kept(st, e) == [remote |-> rem, resp |-> [status |-> st, err |-> e]]
    IN  IF fault = "transport" THEN kept(NoResponse, TRUE)
        ELSE IF fault = "server" THEN kept(StatusServerError, TRUE)
        ELSE IF ~cur.exists THEN kept(StatusNoContent, FALSE)
        ELSE IF ifMatch # NoEtag /\ cur.Etag # ifMatch
        THEN kept(StatusPreconditionFailed, TRUE)
        ELSE [remote |-> [rem EXCEPT ![t] = NoRecord],
              resp |-> [status |-> StatusOK, err |-> fault = "okerr"]]

-----------------------------------------------------------------------------
(* StateStore (schema.ResourceData)                                        *)

EmptyStore ==
    [id |-> EmptyId, name |-> EmptyString, resource_group_name |-> EmptyString,
     zone_name |-> EmptyString, ttl |-> 0, etag |-> NoEtag, records |-> {},
     tags |-> {}]

\* (*ResourceData).State(): a resource whose id is "" has no state at all.
State(st) == IF st.id = EmptyId THEN EmptyStore ELSE st

\* What a configuration asks the record set to hold: ttl, hostnames and
\* tags (a tag map as its set of key/value pairs).
Payloads ==
    {[ttl |-> 300, records |-> Hosts, tags |-> {<<"env", "prod">>}],
     [ttl |-> 60, records |-> {"host1.example.com"}, tags |-> {}],
     [ttl |-> 60, records |-> {}, tags |-> {<<"env", "prod">>}]}

\* The configurations the engine may hand to Create and Update: every
\* attribute set (each payload in the first zone, one in the others), or
\* one of the scalar attributes left out.
FullConfigs ==
    {c \in {[name |-> n, resource_group_name |-> g, zone_name |-> z,
             ttl |-> p.ttl, records |-> p.records, tags |-> p.tags] :
                n \in Names, g \in Groups, z \in Zones, p \in Payloads} :
        c.zone_name = "zone1" \/ c.records = {"host1.example.com"}}

Without(d, k) == [x \in (DOMAIN d) \ {k} |-> d[x]]

Configs ==
    FullConfigs \cup
    {Without(d, k) : d \in {c \in FullConfigs : c.zone_name = "zone1" /\ c.ttl = 300},
                     k \in {"name", "resource_group_name", "zone_name", "ttl"}}

\* What may go wrong in a call to the service.
GetFaults    == {"none", "transport", "notfounderr"}
DeleteFaults == {"none", "transport", "server", "okerr"}
UpsertFaults == {"none", "transport", "noid"}

\* What the service may make of the etag an upsert carries.
EtagPolicies == {"hint", "enforced"}

\* What another client of the service may leave in the place of a record
\* set's PTR list: no list, or a list with a record that names no host.
StrippedLists == {Nil, Ptr(<<[Ptrdname |-> Nil]>>)}

\* Identifiers an operator may import: those of the service, and one cut
\* short after "PTR".
ImportIds ==
    {ServiceId(t) : t \in Triples} \cup
    {<<"subscriptions", SubscriptionId, "resourceGroups", "rg1",
       "providers", "Microsoft.Network", "dnszones", "zone1", "PTR">>}

-----------------------------------------------------------------------------
(* The handlers, as functions from the state they find to their outcome    *)

\* Variant of upsertFailed that lets an error value through.
upsertErrorIgnored(resp) == FALSE

\* Line 89: the upsert's error value is tested first.
upsertFailed(resp) == resp.err

\* Line 93: a response without an identifier.
missingID(resp) == resp.ID = Nil

\* Line 116: the lookup's error value is tested before its status.
getFailed(resp) == resp.err

\* Line 119: the lookup says the record set is not there.
notFound(resp) == resp.status = StatusNotFound

\* Line 152: anything but 200 is a failed delete; the error value is not
\* looked at.
deleteFailed(resp) == resp.status # StatusOK

\* Variant of IfNoneMatch that forbids overwriting.
IfNoneMatchStar == "*"

\* Lines 86-88: the if-none-match token of the upsert, left empty so that
\* an existing record set may be overwritten.
IfNoneMatch == EmptyString

\* Line 151: the if-match token of the delete, left empty.
DeleteIfMatch == NoEtag

\* What a handler did: the store it leaves, the service's record sets and
\* etag sequence after it, its error and the calls it made.
Outcome(st, rem, etagSeq, err, calls) ==
    [store |-> st, remote |-> rem, nextEtag |-> etagSeq, err |-> err, calls |-> calls]

GetCall(t, fault, resp) ==
    [op |-> "get", t |-> t, fault |-> fault, status |-> resp.status,
     err |-> resp.err, PtrRecords |-> resp.PtrRecords]

\* Lines 116-135: Read, once the lookup has answered.
ReadResponse(st, rem, etagSeq, t, resp, flat, call) ==
    IF getFailed(resp)
    THEN Outcome(st, rem, etagSeq, "RemoteError", <<call>>)
    ELSE IF notFound(resp)
    THEN Outcome([st EXCEPT !.id = EmptyId], rem, etagSeq, "none", <<call>>)
    ELSE IF flat.panic
    THEN Outcome(st, rem, etagSeq, "Panic", <<call>>)
    ELSE Outcome([id |-> st.id,
                  name |-> t[3],
                  resource_group_name |-> t[1],
                  zone_name |-> t[2],
                  ttl |-> resp.TTL,
                  etag |-> resp.Etag,
                  records |-> ListToSet(flat.results),
                  tags |-> flattenTags(resp.Metadata)],
                 rem, etagSeq, "none", <<call>>)

\* Line 115: the lookup.
ReadLookup(st, rem, etagSeq, t, fault, resp) ==
    ReadResponse(st, rem, etagSeq, t, resp,
                 flattenAzureRmDnsPtrRecords(resp.PtrRecords),
                 GetCall(t, fault, resp))

\* Lines 106-113: the identifier is parsed and the triple taken from it.
ReadParsed(st, rem, etagSeq, fault, id) ==
    IF ~id.ok
    THEN Outcome(st, rem, etagSeq, "ParseError", <<>>)
    ELSE ReadLookup(st, rem, etagSeq, IdTriple(id), fault,
                    DnsGet(rem, IdTriple(id), fault))

\* resourceArmDnsPtrRecordRead (lines 102-136).
resourceArmDnsPtrRecordRead(st, rem, etagSeq, fault) ==
    ReadParsed(st, rem, etagSeq, fault, parseAzureResourceID(st.id))

\* Lines 65-67: the triple the upsert is issued for.
UpsertTriple(d) ==
    <<Get(d, "resource_group_name"), Get(d, "zone_name"), Get(d, "name")>>

\* Lines 68-79: the properties sent.
UpsertProperties(d) ==
    [Metadata |-> expandTags(Get(d, "tags")),
     TTL |-> Get(d, "ttl"),
     PtrRecords |-> Ptr(expandAzureRmDnsPtrRecords(d))]

UpsertCall(t, props, eTag, fault, resp) ==
    [op |-> "upsert", t |-> t, fault |-> fault, parameters |-> props,
     ifMatch |-> eTag, ifNoneMatch |-> IfNoneMatch,
     status |-> resp.status, err |-> resp.err, ID |-> resp.ID]

\* The result of a CreateOrUpdate that has not returned yet.
Pending == "pending"

\* Line 97: d.SetId(*resp.ID).
SetId(st, id) == [st EXCEPT !.id = id]

\* Lines 97-99: the identifier is set and the trailing Read called, on the
\* record sets `rem` the service holds when the lookup reaches it.  A panic
\* in it ends the process before anything is saved.
UpsertThenRead(st, call, read) ==
    Outcome(IF read.err = "Panic" THEN st ELSE read.store,
            read.remote, read.nextEtag, read.err, <<call>> \o read.calls)

TrailingRead(st, call, rem, etagSeq, fault) ==
    UpsertThenRead(st, call,
        resourceArmDnsPtrRecordRead(SetId(st, Deref(call.ID)), rem, etagSeq, fault))

\* Lines 89-95: CreateOrUpdate, once the upsert has answered: it returns
\* an error, or goes on to lines 97-99.
UpsertResponse(st, r, call) ==
    IF upsertFailed(r.resp)
    THEN Outcome(st, r.remote, r.nextEtag, "RemoteError", <<call>>)
    ELSE IF missingID(r.resp)
    THEN Outcome(st, r.remote, r.nextEtag, "ProtocolError", <<call>>)
    ELSE Outcome(st, r.remote, r.nextEtag, Pending, <<call>>)

\* Lines 69 and 88: the if-match token of the upsert is the "etag"
\* attribute, which is computed: the etag the last Read stored.
UpsertIfMatch(st) == st.etag

\* Line 88: the upsert.
UpsertDispatch(st, t, props, f1, r) ==
    UpsertResponse(st, r, UpsertCall(t, props, UpsertIfMatch(st), f1, r.resp))

\* resourceArmDnsPtrRecordCreateOrUpdate (lines 61-100), up to the return
\* of the upsert.
resourceArmDnsPtrRecordCreateOrUpdate(d, st, rem, etagSeq, policy, f1) ==
    UpsertDispatch(st, UpsertTriple(d), UpsertProperties(d), f1,
        DnsCreateOrUpdate(rem, etagSeq, UpsertTriple(d), UpsertProperties(d),
                          UpsertIfMatch(st), IfNoneMatch, policy, f1))

DeleteCall(t, fault, resp) ==
    [op |-> "delete", t |-> t, fault |-> fault, ifMatch |-> DeleteIfMatch,
     status |-> resp.status, err |-> resp.err]

\* Lines 152-156: Delete, once the delete call has answered.
\* resp.StatusCode is read through the embedded *http.Response, which is
\* nil when the call got no response: the read is then a nil dereference.
DeleteResponse(st, etagSeq, r, call) ==
    IF r.resp.status = NoResponse
    THEN Outcome(st, r.remote, etagSeq, "Panic", <<call>>)
    ELSE IF deleteFailed(r.resp)
    THEN Outcome(st, r.remote, etagSeq, "RemoteError", <<call>>)
    ELSE Outcome(st, r.remote, etagSeq, "none", <<call>>)

\* Lines 147-151: the delete call.
DeleteDispatch(st, etagSeq, t, fault, r) ==
    DeleteResponse(st, etagSeq, r, DeleteCall(t, fault, r.resp))

\* Lines 142-149: the identifier is parsed and the triple taken from it.
DeleteParsed(st, rem, etagSeq, fault, id) ==
    IF ~id.ok
    THEN Outcome(st, rem, etagSeq, "ParseError", <<>>)
    ELSE DeleteDispatch(st, etagSeq, IdTriple(id), fault,
                        DnsDelete(rem, IdTriple(id), DeleteIfMatch, fault))

\* resourceArmDnsPtrRecordDelete (lines 138-157).
resourceArmDnsPtrRecordDelete(st, rem, etagSeq, fault) ==
    DeleteParsed(st, rem, etagSeq, fault, parseAzureResourceID(st.id))

-----------------------------------------------------------------------------
(* The state machine                                                       *)

NoOrigin == [from |-> "none", t |-> <<>>]

\* What `last` holds after a step that is not a handler's.
Event(op) ==
    [op |-> op, err |-> "none", desired |-> {}, again |-> FALSE,
     disturbed |-> FALSE, calls |-> <<>>]

Init ==
    /\ remote = [t \in Triples |-> NoRecord]
    /\ nextEtag = 1
    /\ store = EmptyStore
    /\ origin = NoOrigin
    /\ last = Event("Init")

\* A CreateOrUpdate is between its upsert and its lookup.
InFlight == last.err = Pending

\* origin after a handler left `st` in the store.
Kept(st) == IF st.id = EmptyId THEN NoOrigin ELSE origin

\* The configuration handed to this invocation is the one the invocation
\* before it was handed, and that one succeeded.
Again(desired) == desired # {} /\ last.desired = desired /\ last.err = "none"

\* The state after a handler invocation with outcome `out`.
Completed(op, desired, out, from) ==
    /\ remote' = out.remote
    /\ nextEtag' = out.nextEtag
    /\ store' = State(out.store)
    /\ origin' = from
    /\ last' = [op |-> op, err |-> out.err, desired |-> desired,
                again |-> Again(desired), disturbed |-> FALSE,
                calls |-> out.calls]

\* Line 88 has returned: CreateOrUpdate has failed, or is in flight with
\* nothing saved yet.
CreateOrUpdateDispatched(op, d, out) == Completed(op, {d}, out, origin)

CreateOrUpdate(op, d, policy, f1) ==
    /\ ~InFlight
    /\ nextEtag <= MaxEtag
    /\ CreateOrUpdateDispatched(op, d,
          resourceArmDnsPtrRecordCreateOrUpdate(d, store, remote, nextEtag,
                                                policy, f1))

\* The engine creates a resource it holds no state for.
Create ==
    \E d \in Configs, policy \in EtagPolicies, f \in UpsertFaults :
        /\ store.id = EmptyId
        /\ CreateOrUpdate("Create", d, policy, f)

\* The engine updates in place a resource it holds state for, unless a
\* ForceNew attribute changes.
Update ==
    \E d \in Configs, policy \in EtagPolicies, f \in UpsertFaults :
        /\ store.id # EmptyId
        /\ \A k \in ForceNew : Get(d, k) = store[k]
        /\ CreateOrUpdate("Update", d, policy, f)

\* origin after CreateOrUpdate: the identifier is the upsert's once line 97
\* has stored it (and the process lived to save it).
Stored(out) ==
    IF out.err # "Panic" /\ out.store.id # EmptyId
    THEN [from |-> "upsert", t |-> out.calls[1].t]
    ELSE Kept(out.store)

CreateOrUpdateReturned(out) ==
    /\ remote' = out.remote
    /\ nextEtag' = out.nextEtag
    /\ store' = State(out.store)
    /\ origin' = Stored(out)
    /\ last' = [last EXCEPT !.err = out.err, !.calls = out.calls]

\* Lines 97-99 of the CreateOrUpdate in flight: its trailing Read looks up
\* what the service holds by now.
CreateOrUpdateRead ==
    \E f \in GetFaults :
        /\ InFlight
        /\ CreateOrUpdateReturned(
                TrailingRead(store, last.calls[1], remote, nextEtag, f))

ReadDone(out) == Completed("Read", {}, out, Kept(out.store))

Read ==
    \E f \in GetFaults :
        /\ ~InFlight
        /\ store.id # EmptyId
        /\ ReadDone(resourceArmDnsPtrRecordRead(store, remote, nextEtag, f))

Delete ==
    \E f \in DeleteFaults :
        /\ ~InFlight
        /\ store.id # EmptyId
        /\ Completed("Delete", {},
                     resourceArmDnsPtrRecordDelete(store, remote, nextEtag, f),
                     origin)

\* After a Delete that reported success the engine drops the resource.
EngineRemove ==
    /\ last.op = "Delete"
    /\ last.err = "none"
    /\ store' = EmptyStore
    /\ origin' = NoOrigin
    /\ last' = Event("EngineRemove")
    /\ UNCHANGED <<remote, nextEtag>>

\* schema.ImportStatePassthrough: the given string becomes the id, as is.
Import ==
    \E id \in ImportIds :
        /\ ~InFlight
        /\ store.id = EmptyId
        /\ store' = [EmptyStore EXCEPT !.id = id]
        /\ origin' = [from |-> "import", t |-> <<>>]
        /\ last' = Event("Import")
        /\ UNCHANGED <<remote, nextEtag>>

\* Another client of the service rewrites a record set so that it carries
\* no PTR list, or a record without a host name; the service serves it at
\* any time, also between the two calls of a CreateOrUpdate in flight.
OutOfBandStrip ==
    \E t \in Triples, l \in StrippedLists :
        /\ remote[t].exists
        /\ remote[t].PtrRecords # l
        /\ nextEtag <= MaxEtag
        /\ remote' = [remote EXCEPT ![t].PtrRecords = l, ![t].Etag = nextEtag]
        /\ nextEtag' = nextEtag + 1
        /\ last' = IF InFlight THEN [last EXCEPT !.disturbed = TRUE]
                   ELSE Event("OutOfBand")
        /\ UNCHANGED <<store, origin>>

Next ==
    \/ Create
    \/ Update
    \/ CreateOrUpdateRead
    \/ Read
    \/ Delete
    \/ EngineRemove
    \/ Import
    \/ OutOfBandStrip

Spec == Init /\ [][Next]_vars

-----------------------------------------------------------------------------
(* Properties                                                              *)

IsCreateOrUpdate(l) == l.op \in {"Create", "Update"}

\* A step in which a CreateOrUpdate makes its upsert, and one in which it
\* returns from its trailing Read.
UpsertStep == ~InFlight /\ IsCreateOrUpdate(last') /\ last' # last
ReturnStep == InFlight /\ last'.err # Pending

\* The configuration the last CreateOrUpdate was handed.
Desired == Deref(last.desired)

\* The required attributes a configuration leaves out.
Missing(d) == Required \ DOMAIN d

\* The hostnames of a PTR list; none when there is no list.
HostnamesOf(p) ==
    IF p = Nil THEN {}
    ELSE {Deref(Deref(p)[i].Ptrdname) :
            i \in {j \in DOMAIN Deref(p) : Deref(p)[j].Ptrdname # Nil}}

SameContent(a, b) ==
    /\ a.exists /\ b.exists
    /\ a.TTL = b.TTL
    /\ HostnamesOf(a.PtrRecords) = HostnamesOf(b.PtrRecords)
    /\ a.Metadata = b.Metadata

\* C1: a Read whose lookup is answered "not found" (404), with or without
\* an error value next to the status, reports Absent: it clears the
\* identifier and returns no error.
C1_ReadOfMissingIsAbsent ==
    (last.op = "Read" /\ Len(last.calls) = 1 /\ last.calls[1].status = StatusNotFound)
        => (last.err = "none" /\ store.id = EmptyId)

\* C2: a Read that follows a successful Delete, and whose lookup is
\* answered "not found", clears the identifier and returns no error.
C2_DeleteThenReadIsAbsent ==
    [][(/\ last.op = "Delete" /\ last.err = "none"
        /\ last'.op = "Read" /\ Len(last'.calls) = 1
        /\ last'.calls[1].status = StatusNotFound)
        => (last'.err = "none" /\ store'.id = EmptyId)]_vars

\* C3: a successful CreateOrUpdate leaves in the store the records set and
\* the ttl of the configuration it was handed, and a Read right after it
\* finds the same (it succeeds, or fails on the transport and changes
\* nothing).
C3_RoundTrip ==
    [][/\ (IsCreateOrUpdate(last') /\ last'.err = "none")
            => /\ store'.records = Get(Deref(last'.desired), "records")
               /\ store'.ttl = Get(Deref(last'.desired), "ttl")
       /\ (IsCreateOrUpdate(last) /\ last.err = "none" /\ last'.op = "Read")
            => /\ store'.records = Get(Desired, "records")
               /\ store'.ttl = Get(Desired, "ttl")
               /\ last'.err \in {"none", "RemoteError"}]_vars

C3_Witness ==
    /\ IsCreateOrUpdate(last) /\ last.err = "none"
    /\ Get(Desired, "records") = Hosts
    /\ Len(Deref(last.calls[1].parameters.PtrRecords)) = 2
    /\ last.calls[2].status = StatusOK
    /\ store.records = Hosts
    /\ store.ttl = 300

\* C4: a CreateOrUpdate handed the configuration of the successful
\* CreateOrUpdate before it, and answered by the service without a fault,
\* carries the etag the first one's Read stored, which is the record set's,
\* and its upsert leaves the record set with the same ttl, hostnames and
\* metadata (and every other record set as it was); when no other client
\* writes to the service before its lookup it succeeds, after one upsert
\* and one lookup.
C4_Idempotent ==
    [][/\ (UpsertStep /\ last'.again /\ last'.calls[1].fault = "none")
            => /\ last'.err = Pending
               /\ last'.calls[1].ifMatch = store.etag
               /\ store.etag = remote[last'.calls[1].t].Etag
               /\ SameContent(remote'[last'.calls[1].t], remote[last'.calls[1].t])
               /\ \A u \in Triples \ {last'.calls[1].t} : remote'[u] = remote[u]
       /\ (/\ ReturnStep /\ last'.again /\ ~last'.disturbed
           /\ \A i \in DOMAIN last'.calls : last'.calls[i].fault = "none")
            => /\ last'.err = "none"
               /\ Len(last'.calls) = 2
               /\ remote' = remote]_vars

C4_Witness ==
    /\ last.op = "Update" /\ last.again /\ last.err = "none"
    /\ ~last.disturbed
    /\ last.calls[1].ifMatch # NoEtag
    /\ last.calls[1].status = StatusOK
    /\ remote[last.calls[1].t].Etag # last.calls[1].ifMatch

\* C5: the identifier a CreateOrUpdate stores parses to the triple the
\* upsert was issued for, the trailing Read addresses that triple, and so
\* does every later Read and Delete on that identifier, none of which
\* fails with ParseError.
C5_IdentifierRoundTrip ==
    [][/\ (IsCreateOrUpdate(last') /\ Len(last'.calls) = 2)
            => /\ parseAzureResourceID(Deref(last'.calls[1].ID)).ok
               /\ IdTriple(parseAzureResourceID(Deref(last'.calls[1].ID)))
                    = last'.calls[1].t
               /\ last'.calls[2].t = last'.calls[1].t
       /\ ReturnStep => last'.err # "ParseError"
       /\ (origin'.from = "upsert")
            => IdTriple(parseAzureResourceID(store'.id)) = origin'.t
       /\ (origin.from = "upsert" /\ last'.op \in {"Read", "Delete"})
            => /\ last'.err # "ParseError"
               /\ Len(last'.calls) = 1
               /\ last'.calls[1].t = origin.t]_vars

C5_Witness ==
    /\ last.op = "Delete" /\ last.err = "none"
    /\ origin.from = "upsert"
    /\ last.calls[1].t = origin.t
    /\ origin.t \in Triples

\* C6: Delete reports success exactly when the delete call's status is
\* 200; for every other status, no status at all included, it returns a
\* RemoteError and leaves the store as it was.
C6_DeleteSucceedsIffOK ==
    [][(last'.op = "Delete" /\ Len(last'.calls) = 1)
        => /\ (last'.err = "none") <=> (last'.calls[1].status = StatusOK)
           /\ (last'.calls[1].status # StatusOK)
                => (last'.err = "RemoteError" /\ store' = store)]_vars

\* C7 as stated: a CreateOrUpdate handed a configuration without name,
\* resource group, zone or ttl fails with ValidationError before any call.
C7_ValidationBeforeDispatch ==
    (IsCreateOrUpdate(last) /\ Missing(Desired) # {})
        => (last.err = "ValidationError" /\ last.calls = <<>>)

\* C7 as amended: such a CreateOrUpdate never fails with ValidationError;
\* it dispatches the upsert with "" (or ttl 0) in the place of what is
\* left out.
C7_ZeroValueDispatched ==
    (IsCreateOrUpdate(last) /\ Missing(Desired) # {})
        => /\ last.err # "ValidationError"
           /\ Len(last.calls) >= 1
           /\ last.calls[1].op = "upsert"
           /\ ("resource_group_name" \in Missing(Desired))
                => last.calls[1].t[1] = EmptyString
           /\ ("zone_name" \in Missing(Desired)) => last.calls[1].t[2] = EmptyString
           /\ ("name" \in Missing(Desired)) => last.calls[1].t[3] = EmptyString
           /\ ("ttl" \in Missing(Desired)) => last.calls[1].parameters.TTL = 0

C7_Witness ==
    /\ IsCreateOrUpdate(last) /\ Missing(Desired) = {"ttl"}
    /\ last.err = "none"
    /\ last.calls[1].parameters.TTL = 0
    /\ remote[last.calls[1].t].TTL = 0
    /\ store.ttl = 0

\* C8: no step of an Update, its upsert or its return, changes the identity
\* triple of the tracked resource, and its upsert touches no record set
\* under another triple.
C8_UpdateKeepsIdentity ==
    [][/\ (last'.op = "Update" /\ (UpsertStep \/ ReturnStep))
            => IdTriple(parseAzureResourceID(store'.id))
                    = IdTriple(parseAzureResourceID(store.id))
       /\ (last'.op = "Update" /\ UpsertStep)
            => \A u \in Triples \ {IdTriple(parseAzureResourceID(store.id))} :
                    remote'[u] = remote[u]
       /\ (last'.op = "Update" /\ ReturnStep) => remote' = remote]_vars

\* C9: CreateOrUpdate begins with one upsert; when the upsert returns an
\* error it fails with RemoteError, and when it answers without an
\* identifier with ProtocolError, in both cases with the stored identifier
\* as it was and no lookup; the identifier changes only when a lookup
\* followed the upsert; and on success there was one upsert, then one
\* lookup, and the identifier stored is the upsert's.
C9_IdentifierAfterUpsert ==
    [][IsCreateOrUpdate(last')
        => /\ Len(last'.calls) >= 1
           /\ last'.calls[1].op = "upsert"
           /\ last'.calls[1].err
                => (last'.err = "RemoteError" /\ Len(last'.calls) = 1
                    /\ store'.id = store.id)
           /\ (~last'.calls[1].err /\ last'.calls[1].ID = Nil)
                => (last'.err = "ProtocolError" /\ Len(last'.calls) = 1
                    /\ store'.id = store.id)
           /\ (last'.err = Pending) => (Len(last'.calls) = 1 /\ store' = store)
           /\ (store'.id # store.id) => Len(last'.calls) = 2
           /\ (last'.err = "none")
                => /\ Len(last'.calls) = 2
                   /\ last'.calls[2].op = "get"
                   /\ store'.id = Deref(last'.calls[1].ID)]_vars

C9_Witness ==
    /\ last.op = "Update"
    /\ last.err = "ProtocolError"
    /\ Len(last.calls) = 1
    /\ ~last.calls[1].err
    /\ store.id # EmptyId
    /\ remote[last.calls[1].t].exists

\* The lookup of the handler that returned last, when it made one.
Lookup == last.calls[Len(last.calls)]

\* C10: a Read, called by the engine or at the end of CreateOrUpdate,
\* whose lookup succeeds completes without crashing and stores exactly the
\* hostnames of the list in the response: none when the response carries
\* no list.
C10_ReadStoresHostnames ==
    (/\ last.calls # <<>> /\ Lookup.op = "get"
     /\ ~Lookup.err /\ Lookup.status = StatusOK)
        => /\ last.err = "none"
           /\ store.records = HostnamesOf(Lookup.PtrRecords)

=============================================================================
